---- MODULE Spec2Model ----
(***************************************************************************)
(* State-machine model of the LingoAI translator client (src/App.tsx and   *)
(* the service module src/unnamed/part_000): the debounced, generation-    *)
(* tagged translation orchestrator, the undo/redo history, and the speech  *)
(* playback pipeline.                                                      *)
(*                                                                         *)
(* Conventions.  A JavaScript string is a sequence of one-character        *)
(* strings, so "" is << >>.  Every event-loop task (a DOM event handler, a *)
(* timer callback, the continuation of an await) is one action; the action *)
(* includes the re-render it causes and the effects that re-render runs.   *)
(* Timers carry the time left before they may fire: setTimeout guarantees  *)
(* a minimum delay only, so a due timer may fire late but never early.     *)
(***************************************************************************)
EXTENDS Integers, Sequences, FiniteSets, TLC

\* ------------------------------------------------------------------ bounds
\* Granularity of the clock, in milliseconds.
TickMs == 100
\* Highest generation the stream counter may reach.
MaxGen == 2
\* Longest accumulated translation, in fragments of one character.
MaxFrag == 2
\* Most handleSpeak invocations in flight at once.
MaxSpeaks == 2

\* ------------------------------------------------------- program constants
DEBOUNCE_MS == 300
HISTORY_MS == 500
HISTORY_MAX == 50

IDLE == "idle"
LOADING == "loading"
SUCCESS == "success"
ERROR == "error"

\* JavaScript null, for the error message.
Null == "null"
DefaultTranslateError == "Translation failed. Please try again."

\* ------------------------------------------------------------------ inputs
\* Languages offered by the two selectors (the target selector leaves out
\* "auto").
SUPPORTED_LANGUAGES == {"auto", "en", "es"}
TargetLanguages == SUPPORTED_LANGUAGES \ {"auto"}
\* Values the user types into the source text area.
TypedTexts == {<< >>, <<" ">>, <<"U+3000">>, <<"a">>, <<"a", "b">>}
\* What local storage holds under the draft key at start-up: nothing, or one
\* text.
SavedItems == {{}, {<<"a">>}}
\* chunk.text of one chunk of the streaming response ("" is skipped).
RawChunks == {<< >>, <<"x">>}
\* message of a thrown error ("" falls back to the default message).
ErrorMessages == {"", "network error"}
\* Parsed bodies of the structured response.
DetectResults == {[detectedLanguage |-> "en", confidence |-> 95]}

\* ----------------------------------------------------------------- strings
\* A character is the one-character string of its code point; a code point
\* that cannot be written in a string here stands as its U+ notation.
\* The space separators U+2000..U+200A, U+202F, U+205F, U+3000 and the line
\* and paragraph separators U+2028, U+2029.
WideSpaceChars ==
  {"U+2000", "U+2001", "U+2002", "U+2003", "U+2004", "U+2005", "U+2006",
   "U+2007", "U+2008", "U+2009", "U+200A", "U+2028", "U+2029", "U+202F",
   "U+205F", "U+3000"}
\* WhiteSpace and LineTerminator code points, as String.prototype.trim takes
\* them: space, tab, LF, FF, CR, then VT, NBSP, BOM and U+1680, and the
\* separators above.
WhiteSpaceChars ==
  {" ", "\t", "\n", "\f", "\r", "", " ", "﻿", " "} \cup WideSpaceChars
IsWhiteSpace(c) == c \in WhiteSpaceChars

RECURSIVE TrimStart(_)
TrimStart(s) ==
  IF s # << >> /\ IsWhiteSpace(Head(s)) THEN TrimStart(Tail(s)) ELSE s

RECURSIVE TrimEnd(_)
TrimEnd(s) ==
  IF s # << >> /\ IsWhiteSpace(s[Len(s)])
  THEN TrimEnd(SubSeq(s, 1, Len(s) - 1))
  ELSE s

\* Mutant: trim removes nothing.
TrimNothing(s) == s

\* String.prototype.trim
Trim(s) == TrimEnd(TrimStart(s))

Remove(seq, i) == SubSeq(seq, 1, i - 1) \o SubSeq(seq, i + 1, Len(seq))

Min(a, b) == IF a < b THEN a ELSE b
Max(a, b) == IF a > b THEN a ELSE b

\* ------------------------------------------------------------------- state
VARIABLES
  activeTab,        \* 'text' | 'document'
  sourceText,
  targetText,
  sourceLang,
  targetLang,
  status,
  detectedLang,
  confidence,       \* in hundredths
  error,            \* Null or a message
  isSpeaking,
  isRecording,
  history,          \* sequence of snapshots; history[i] of the code is history[i + 1]
  historyIndex,     \* 0-based, as in the code
  isInternalChange, \* isInternalChange.current
  activeStreamRef,  \* activeStreamRef.current
  debounceTimers,   \* pending timers of the translation effect
  histTimers,       \* pending timers of the history effect
  requests,         \* handleTranslate invocations suspended at an await
  stored,           \* localStorage['lingoai_source_text']: {} when absent, else {text}
  lastCommit,       \* what the last history timer callback did to the entries
  audioContextRef,  \* TRUE once the playback AudioContext exists
  speaks,           \* handleSpeak invocations in flight, oldest first
  quietMs,          \* time since the source text last changed, capped at DEBOUNCE_MS
  preClear,         \* stream ids in flight that were issued before the last handleClear
  preSwap,          \* stream ids in flight that were issued before the last exchange by handleSwap
  voiceCalls,            \* startVoiceInput invocations, oldest first, with what each acquired
  liveSessionPromiseRef, \* 0 for null, else the invocation whose connect() promise it holds
  mediaStreamRef,        \* 0 for null, else the invocation whose capture stream it holds
  inputAudioContextRef,  \* 0 for null, else the invocation whose capture context it holds
  voiceNodes,            \* window._voiceNodes: 0 when absent, else the invocation whose onopen built them
  consecFail,            \* failed frame sends since the last successful one
  lastFrame,             \* the last captured frame and the blob made of it
  codec,                 \* one run of bytes through encode and back through atob
  uploads,               \* handleFileUpload invocations in flight, oldest first
  inputBudget            \* input events the user may still produce

ui == <<activeTab, sourceText, targetText, sourceLang, targetLang, status,
        detectedLang, confidence, error, isRecording, history, historyIndex,
        isInternalChange, debounceTimers, histTimers, stored, lastCommit>>
speech == <<isSpeaking, audioContextRef, speaks>>
orch == <<activeStreamRef, requests, preClear, preSwap>>
voiceRefs == <<liveSessionPromiseRef, mediaStreamRef, inputAudioContextRef,
               voiceNodes>>
voice == <<voiceCalls, voiceRefs, consecFail, lastFrame, codec>>
vars == <<ui, speech, orch, quietMs, voice, uploads, inputBudget>>

\* The component state one render sees, as a record.
Cur ==
  [activeTab |-> activeTab, sourceText |-> sourceText, targetText |-> targetText,
   sourceLang |-> sourceLang, targetLang |-> targetLang, status |-> status,
   detectedLang |-> detectedLang, confidence |-> confidence, error |-> error,
   isRecording |-> isRecording, history |-> history,
   historyIndex |-> historyIndex, isInternalChange |-> isInternalChange,
   debounceTimers |-> debounceTimers, histTimers |-> histTimers,
   stored |-> stored, lastCommit |-> lastCommit]

\* ----------------------------------------------------------------- effects
\* History tracking effect, deps [sourceText, history, historyIndex].
HistoryTimer(n) ==
  [text |-> n.sourceText, history |-> n.history,
   historyIndex |-> n.historyIndex, remaining |-> HISTORY_MS]

\* Mutant: the effect skips the recording and leaves the flag set.
HistoryEffectKeepsFlag(o, n) ==
  IF <<n.sourceText, n.history, n.historyIndex>>
       = <<o.sourceText, o.history, o.historyIndex>>
  THEN n
  ELSE IF n.isInternalChange
       THEN [n EXCEPT !.histTimers = {}]
       ELSE [n EXCEPT !.histTimers = {HistoryTimer(n)}]

HistoryEffect(o, n) ==
  IF <<n.sourceText, n.history, n.historyIndex>>
       = <<o.sourceText, o.history, o.historyIndex>>
  THEN n
  ELSE IF n.isInternalChange
       THEN [n EXCEPT !.histTimers = {}, !.isInternalChange = FALSE]
       ELSE [n EXCEPT !.histTimers = {HistoryTimer(n)}]

\* Mutant: nothing is written to local storage.
SaveEffectSkipped(o, n) == n

\* Save to localStorage, deps [sourceText, activeTab].
SaveEffect(o, n) ==
  IF <<n.sourceText, n.activeTab>> = <<o.sourceText, o.activeTab>>
  THEN n
  ELSE IF n.activeTab = "text" THEN [n EXCEPT !.stored = {n.sourceText}] ELSE n

\* Debounced translation effect, deps [sourceText, handleTranslate,
\* isRecording, activeTab]; handleTranslate changes with sourceLang and
\* targetLang.
DebounceTimer(n) ==
  [text |-> n.sourceText, sourceLang |-> n.sourceLang,
   targetLang |-> n.targetLang, remaining |-> DEBOUNCE_MS]

\* Mutant: the cleanup leaves the pending timer running.
ClearTypingTimeoutSkipped(n) == n

ClearTypingTimeout(n) == [n EXCEPT !.debounceTimers = {}]

\* Mutant: the timer is started whether or not recording is active.
DebounceEffectWhileRecording(o, n) ==
  IF <<n.sourceText, n.sourceLang, n.targetLang, n.isRecording, n.activeTab>>
       = <<o.sourceText, o.sourceLang, o.targetLang, o.isRecording, o.activeTab>>
  THEN n
  ELSE LET c == ClearTypingTimeout(n) IN
       IF c.activeTab # "text" THEN c
       ELSE IF Len(c.sourceText) > 0
            THEN [c EXCEPT !.debounceTimers = {DebounceTimer(c)}]
            ELSE [c EXCEPT !.targetText = << >>, !.detectedLang = "",
                           !.confidence = 0, !.status = IDLE]

\* Mutant: an empty source text leaves the output as it is.
DebounceEffectKeepsOutput(o, n) ==
  IF <<n.sourceText, n.sourceLang, n.targetLang, n.isRecording, n.activeTab>>
       = <<o.sourceText, o.sourceLang, o.targetLang, o.isRecording, o.activeTab>>
  THEN n
  ELSE LET c == ClearTypingTimeout(n) IN
       IF c.activeTab # "text" THEN c
       ELSE IF Len(c.sourceText) > 0 /\ ~c.isRecording
            THEN [c EXCEPT !.debounceTimers = {DebounceTimer(c)}]
            ELSE c

\* Mutant: isRecording is not a dependency of the effect.
DebounceEffectRecordingNoDep(o, n) ==
  IF <<n.sourceText, n.sourceLang, n.targetLang, n.activeTab>>
       = <<o.sourceText, o.sourceLang, o.targetLang, o.activeTab>>
  THEN n
  ELSE LET c == ClearTypingTimeout(n) IN
       IF c.activeTab # "text" THEN c
       ELSE IF Len(c.sourceText) > 0 /\ ~c.isRecording
            THEN [c EXCEPT !.debounceTimers = {DebounceTimer(c)}]
            ELSE IF Len(c.sourceText) = 0
                 THEN [c EXCEPT !.targetText = << >>, !.detectedLang = "",
                                !.confidence = 0, !.status = IDLE]
                 ELSE c

DebounceEffect(o, n) ==
  IF <<n.sourceText, n.sourceLang, n.targetLang, n.isRecording, n.activeTab>>
       = <<o.sourceText, o.sourceLang, o.targetLang, o.isRecording, o.activeTab>>
  THEN n
  ELSE LET c == ClearTypingTimeout(n) IN
       IF c.activeTab # "text" THEN c
       ELSE IF Len(c.sourceText) > 0 /\ ~c.isRecording
            THEN [c EXCEPT !.debounceTimers = {DebounceTimer(c)}]
            ELSE IF Len(c.sourceText) = 0
                 THEN [c EXCEPT !.targetText = << >>, !.detectedLang = "",
                                !.confidence = 0, !.status = IDLE]
                 ELSE c

\* The effects one re-render runs, in declaration order.
Effects(o, n) == DebounceEffect(o, SaveEffect(o, HistoryEffect(o, n)))

\* Commit the state a task leaves behind, after the effects of its re-render.
Render(n) ==
  \E f \in {Effects(Cur, n)} :
  /\ activeTab' = f.activeTab
  /\ sourceText' = f.sourceText
  /\ targetText' = f.targetText
  /\ sourceLang' = f.sourceLang
  /\ targetLang' = f.targetLang
  /\ status' = f.status
  /\ detectedLang' = f.detectedLang
  /\ confidence' = f.confidence
  /\ error' = f.error
  /\ isRecording' = f.isRecording
  /\ history' = f.history
  /\ historyIndex' = f.historyIndex
  /\ isInternalChange' = f.isInternalChange
  /\ debounceTimers' = f.debounceTimers
  /\ histTimers' = f.histTimers
  /\ stored' = f.stored
  /\ lastCommit' = f.lastCommit
  /\ quietMs' = IF f.sourceText # sourceText THEN 0 ELSE quietMs

\* -------------------------------------------------------------------- init
\* After the first render and the mount effects: a fresh start, or a start
\* that restores a non-empty saved draft.
Mounted(saved) ==
  LET first == [activeTab |-> "text", sourceText |-> << >>, targetText |-> << >>,
                sourceLang |-> "auto", targetLang |-> "es", status |-> IDLE,
                detectedLang |-> "", confidence |-> 0, error |-> Null,
                isRecording |-> FALSE, history |-> << << >> >>,
                historyIndex |-> 0, isInternalChange |-> FALSE,
                debounceTimers |-> {}, histTimers |-> {}, stored |-> saved,
                lastCommit |-> "none"]
      \* first effects pass: history timer, save of '', empty-text reset
      m1 == [first EXCEPT !.histTimers = {HistoryTimer(first)},
                          !.stored = {<< >>}]
  IN IF saved = {} \/ saved = {<< >>}
     THEN m1
     ELSE LET savedText == CHOOSE t \in saved : TRUE IN
          Effects(m1, [m1 EXCEPT !.sourceText = savedText,
                                 !.history = <<savedText>>,
                                 !.historyIndex = 0])

\* Most input events of the user in a run under the assumption that the
\* user stops producing input.
MaxInputEvents == 3
\* The budget of a run without that assumption.
NoInputLimit == MaxInputEvents + 1

InitApp(items) ==
  \E saved \in items : \E m \in {Mounted(saved)} :
    /\ activeTab = m.activeTab
    /\ sourceText = m.sourceText
    /\ targetText = m.targetText
    /\ sourceLang = m.sourceLang
    /\ targetLang = m.targetLang
    /\ status = m.status
    /\ detectedLang = m.detectedLang
    /\ confidence = m.confidence
    /\ error = m.error
    /\ isRecording = m.isRecording
    /\ history = m.history
    /\ historyIndex = m.historyIndex
    /\ isInternalChange = m.isInternalChange
    /\ debounceTimers = m.debounceTimers
    /\ histTimers = m.histTimers
    /\ stored = m.stored
    /\ lastCommit = m.lastCommit
    /\ isSpeaking = FALSE
    /\ audioContextRef = FALSE
    /\ speaks = << >>
    /\ activeStreamRef = 0
    /\ requests = {}
    /\ quietMs = 0
    /\ preClear = {}
    /\ preSwap = {}
    /\ voiceCalls = << >>
    /\ liveSessionPromiseRef = 0
    /\ mediaStreamRef = 0
    /\ inputAudioContextRef = 0
    /\ voiceNodes = 0
    /\ consecFail = 0
    /\ lastFrame = [samples |-> << >>, data |-> << >>]
    /\ uploads = << >>

\* No bytes are put through the codec.
NoCodecRun ==
  [pc |-> "idle", bytes |-> << >>, text |-> << >>, out |-> << >>, error |-> ""]

InitFrom(items) ==
  InitApp(items) /\ codec = NoCodecRun /\ inputBudget = NoInputLimit

\* Nothing in local storage.
Init == InitFrom({{}})
\* Local storage may hold a draft.
InitRestored == InitFrom(SavedItems)

\* ------------------------------------------------------------ user actions
\* One input event of the user: a key stroke, a click, a file picked, a
\* dictated fragment.  It is counted against the budget of the run.
InputEvent ==
  /\ inputBudget > 0
  /\ inputBudget' = IF inputBudget = NoInputLimit THEN inputBudget
                    ELSE inputBudget - 1

\* <textarea onChange>: setSourceText(e.target.value).
TypeText(t) ==
  /\ activeTab = "text"
  /\ t # sourceText
  /\ Render([Cur EXCEPT !.sourceText = t])
  /\ UNCHANGED <<voice, speech, uploads, orch>>
  /\ InputEvent

\* Source language selector.
SetSourceLang(l) ==
  /\ l # sourceLang
  /\ Render([Cur EXCEPT !.sourceLang = l])
  /\ UNCHANGED <<voice, speech, uploads, orch>>
  /\ InputEvent

\* Target language selector.
SetTargetLang(l) ==
  /\ l # targetLang
  /\ Render([Cur EXCEPT !.targetLang = l])
  /\ UNCHANGED <<voice, speech, uploads, orch>>
  /\ InputEvent

\* Tab buttons.
SetActiveTab(tab) ==
  /\ tab # activeTab
  /\ Render([Cur EXCEPT !.activeTab = tab])
  /\ UNCHANGED <<voice, speech, uploads, orch>>
  /\ InputEvent

\* Mutant: the exchange is made whatever the source language.
SwapUpdateFromAuto(c) ==
  [c EXCEPT !.sourceLang = c.targetLang, !.targetLang = c.sourceLang,
            !.sourceText = c.targetText, !.targetText = c.sourceText]

\* handleSwap
SwapUpdate(c) ==
  IF c.sourceLang = "auto" THEN c
  ELSE [c EXCEPT !.sourceLang = c.targetLang, !.targetLang = c.sourceLang,
                 !.sourceText = c.targetText, !.targetText = c.sourceText]

handleSwap ==
  /\ Render(SwapUpdate(Cur))
  /\ preSwap' = IF sourceLang = "auto" THEN preSwap
                ELSE {r.streamId : r \in requests}
  /\ UNCHANGED <<voice, speech, uploads, activeStreamRef, requests, preClear>>
  /\ InputEvent

\* handleClear: the generation counter is left as it is.
ClearUpdate(c) ==
  [c EXCEPT !.sourceText = << >>, !.targetText = << >>, !.detectedLang = "",
            !.confidence = 0, !.error = Null, !.status = IDLE, !.stored = {}]

handleClear ==
  /\ Render(ClearUpdate(Cur))
  /\ preClear' = {r.streamId : r \in requests}
  /\ UNCHANGED <<voice, speech, uploads, activeStreamRef, requests, preSwap>>
  /\ InputEvent

\* ----------------------------------------------------------- file uploads
\* Most handleFileUpload invocations in flight.
MaxUploads == 2

UnsupportedFileError ==
  "Unsupported file type. Please upload a PDF, DOCX, or TXT file."
DefaultDocumentError == "Failed to translate document."

PdfType == "application/pdf"
DocxType ==
  "application/vnd.openxmlformats-officedocument.wordprocessingml.document"
TextTypes == {"text/plain", "text/markdown"}
DocxSuffix == <<".", "d", "o", "c", "x">>

\* String.prototype.endsWith
EndsWith(s, suffix) ==
  /\ Len(suffix) <= Len(s)
  /\ SubSeq(s, Len(s) - Len(suffix) + 1, Len(s)) = suffix

\* The branch of handleDocumentModeFile a file takes: the type is looked at
\* first, and a name ending in ".docx" makes a file of any other type a
\* DOCX document.
DocumentKind(file) ==
  IF file.type = PdfType THEN "pdf"
  ELSE IF file.type = DocxType \/ EndsWith(file.name, DocxSuffix) THEN "docx"
  ELSE IF file.type \in TextTypes THEN "text"
  ELSE "unsupported"

\* Files the user picks: the name, the type and the text content.
UploadFiles ==
  {[name |-> <<"n", ".", "t", "x", "t">>, type |-> "text/plain",
    content |-> <<"b">>],
   [name |-> <<"n", ".", "b", "i", "n">>, type |-> "application/octet-stream",
    content |-> <<"b">>],
   [name |-> <<"n">> \o DocxSuffix, type |-> "application/octet-stream",
    content |-> <<"b">>],
   [name |-> <<"n">> \o DocxSuffix, type |-> "", content |-> <<"b">>]}

\* handleFileUpload with a file picked, up to its first await: the error is
\* cleared; in the text tab a FileReader is started on the file, whatever
\* its type; in the document tab handleDocumentModeFile runs up to its first
\* await, and for an unsupported file throws into its catch before any.
handleFileUpload(file) ==
  /\ Len(uploads) < MaxUploads
  /\ IF activeTab = "text"
     THEN /\ uploads' = Append(uploads, [pc |-> "read", content |-> file.content])
          /\ Render([Cur EXCEPT !.error = Null])
     ELSE IF DocumentKind(file) # "unsupported"
          THEN /\ uploads' = Append(uploads, [pc |-> "translate",
                                               content |-> file.content])
               /\ Render([Cur EXCEPT !.error = Null])
          ELSE /\ uploads' = uploads
               /\ Render([Cur EXCEPT !.error = UnsupportedFileError])
  /\ UNCHANGED <<voice, speech, orch>>
  /\ InputEvent

\* reader.onload of a text tab upload: setSourceText(content).
FileLoaded(i) ==
  /\ i \in 1..Len(uploads)
  /\ uploads[i].pc = "read"
  /\ uploads' = Remove(uploads, i)
  /\ Render([Cur EXCEPT !.sourceText = uploads[i].content])
  /\ UNCHANGED <<voice, speech, orch, inputBudget>>

\* translateDocument resolves: the translated content is kept for download.
DocumentTranslated(i) ==
  /\ i \in 1..Len(uploads)
  /\ uploads[i].pc = "translate"
  /\ uploads' = Remove(uploads, i)
  /\ UNCHANGED <<ui, quietMs, voice, speech, orch, inputBudget>>

\* A read or translateDocument rejects: catch of handleDocumentModeFile.
DocumentFails(i, message) ==
  /\ i \in 1..Len(uploads)
  /\ uploads[i].pc = "translate"
  /\ uploads' = Remove(uploads, i)
  /\ Render([Cur EXCEPT
               !.error = IF message # "" THEN message ELSE DefaultDocumentError])
  /\ UNCHANGED <<voice, speech, orch, inputBudget>>

\* -------------------------------------------------------------------- time
Elapse(timers) ==
  {[t EXCEPT !.remaining = Max(0, t.remaining - TickMs)] : t \in timers}

\* TickMs of time pass with no task running.
Tick ==
  /\ \/ quietMs < DEBOUNCE_MS
     \/ \E t \in debounceTimers \cup histTimers : t.remaining > 0
  /\ debounceTimers' = Elapse(debounceTimers)
  /\ histTimers' = Elapse(histTimers)
  /\ quietMs' = Min(DEBOUNCE_MS, quietMs + TickMs)
  /\ UNCHANGED <<activeTab, sourceText, targetText, sourceLang, targetLang,
                 status, detectedLang, confidence, error, isRecording, history,
                 historyIndex, isInternalChange, stored, lastCommit, speech, uploads, inputBudget,
                 orch, voice>>

\* ------------------------------------------------------------ orchestrator
\* handleTranslate up to its first await, called by the debounce timer `t`
\* with the text and the languages the timer's closure holds.
NewRequest(t, streamId) ==
  [streamId |-> streamId, text |-> t.text, sourceLang |-> t.sourceLang,
   targetLang |-> t.targetLang, fullText |-> << >>, pc |-> "stream"]

DebounceFire(t) ==
  /\ t \in debounceTimers
  /\ t.remaining = 0
  /\ LET c == [Cur EXCEPT !.debounceTimers = @ \ {t}] IN
     IF Trim(t.text) = << >>
     THEN /\ Render([c EXCEPT !.targetText = << >>, !.detectedLang = "",
                              !.confidence = 0])
          /\ UNCHANGED <<activeStreamRef, requests>>
     ELSE /\ activeStreamRef < MaxGen
          /\ activeStreamRef' = activeStreamRef + 1
          /\ Render([c EXCEPT !.status = LOADING, !.error = Null,
                              !.targetText = << >>])
          /\ requests' = requests \cup {NewRequest(t, activeStreamRef + 1)}
  /\ UNCHANGED <<voice, speech, uploads, inputBudget, preClear, preSwap>>

\* A request that has returned is no longer one issued before the last clear
\* or the last swap.
InFlightOnly ==
  /\ preClear' = preClear \cap {q.streamId : q \in requests'}
  /\ preSwap' = preSwap \cap {q.streamId : q \in requests'}

\* Mutant: the loop applies every fragment, whatever the generation.
StaleAtChunkNever(r) == FALSE

\* Mutant: the structured result is published whatever the generation.
StaleAtDetectNever(r) == FALSE

\* Mutant: the loop takes every generation for stale.
StaleAtChunkAlways(r) == TRUE

\* Mutant: the catch block reports the failure whatever the generation.
StaleAtCatchNever(r) == FALSE

\* Mutant: the catch block takes every generation for stale.
StaleAtCatchAlways(r) == TRUE

\* The generation checks of handleTranslate.
StaleAtChunk(r) == r.streamId # activeStreamRef
StaleAtDetect(r) == r.streamId # activeStreamRef
StaleAtCatch(r) == r.streamId # activeStreamRef

\* The stream of request r delivers one chunk.  translateTextStream yields
\* it unless its text is empty; the loop body of handleTranslate then runs.
StreamChunk(r, raw) ==
  /\ r \in requests
  /\ r.pc = "stream"
  /\ Len(r.fullText) + Len(raw) <= MaxFrag
  /\ IF raw = << >>
     THEN UNCHANGED <<ui, requests, quietMs>>
     ELSE IF StaleAtChunk(r)
          THEN /\ requests' = requests \ {r}
               /\ UNCHANGED <<ui, quietMs>>
          ELSE LET fullText == r.fullText \o raw IN
               /\ requests' = (requests \ {r}) \cup {[r EXCEPT !.fullText = fullText]}
               /\ Render([Cur EXCEPT !.targetText = fullText])
  /\ InFlightOnly
  /\ UNCHANGED <<voice, speech, uploads, inputBudget, activeStreamRef>>

\* The stream of request r ends: the loop exits; the structured call follows
\* when the request was made with sourceLang 'auto', else the status is set.
StreamEnd(r) ==
  /\ r \in requests
  /\ r.pc = "stream"
  /\ IF r.sourceLang = "auto"
     THEN /\ requests' = (requests \ {r}) \cup {[r EXCEPT !.pc = "detect"]}
          /\ UNCHANGED <<ui, quietMs>>
     ELSE /\ requests' = requests \ {r}
          /\ Render([Cur EXCEPT !.status = SUCCESS])
  /\ InFlightOnly
  /\ UNCHANGED <<voice, speech, uploads, inputBudget, activeStreamRef>>

\* catch (err) of handleTranslate.
CatchUpdate(c, r, message) ==
  IF StaleAtCatch(r) THEN c
  ELSE [c EXCEPT !.error = IF message # "" THEN message ELSE DefaultTranslateError,
                 !.status = ERROR]

\* The streaming call of request r throws, before or between chunks.
StreamFail(r, message) ==
  /\ r \in requests
  /\ r.pc = "stream"
  /\ requests' = requests \ {r}
  /\ Render(CatchUpdate(Cur, r, message))
  /\ InFlightOnly
  /\ UNCHANGED <<voice, speech, uploads, inputBudget, activeStreamRef>>

\* translateText resolves with a parsed body.
DetectReturn(r, result) ==
  /\ r \in requests
  /\ r.pc = "detect"
  /\ requests' = requests \ {r}
  /\ IF StaleAtDetect(r)
     THEN UNCHANGED <<ui, quietMs>>
     ELSE Render([Cur EXCEPT !.detectedLang = result.detectedLanguage,
                             !.confidence = result.confidence,
                             !.status = SUCCESS])
  /\ InFlightOnly
  /\ UNCHANGED <<voice, speech, uploads, inputBudget, activeStreamRef>>

\* translateText rejects: the call fails or JSON.parse throws.
DetectFail(r, message) ==
  /\ r \in requests
  /\ r.pc = "detect"
  /\ requests' = requests \ {r}
  /\ Render(CatchUpdate(Cur, r, message))
  /\ InFlightOnly
  /\ UNCHANGED <<voice, speech, uploads, inputBudget, activeStreamRef>>

\* ----------------------------------------------------------------- history
\* handleUndo
UndoUpdate(c) ==
  IF c.historyIndex > 0
  THEN [c EXCEPT !.isInternalChange = TRUE,
                 !.historyIndex = c.historyIndex - 1,
                 !.sourceText = c.history[c.historyIndex]]
  ELSE c

handleUndo ==
  /\ Render(UndoUpdate(Cur))
  /\ UNCHANGED <<voice, speech, uploads, orch>>
  /\ InputEvent

\* handleRedo
RedoUpdate(c) ==
  IF c.historyIndex < Len(c.history) - 1
  THEN [c EXCEPT !.isInternalChange = TRUE,
                 !.historyIndex = c.historyIndex + 1,
                 !.sourceText = c.history[c.historyIndex + 2]]
  ELSE c

handleRedo ==
  /\ Render(RedoUpdate(Cur))
  /\ UNCHANGED <<voice, speech, uploads, orch>>
  /\ InputEvent

\* Mutant: the entries after the cursor are kept.
PushHistoryKeepsTail(h, index, text) ==
  LET appended == Append(h, text) IN
  IF Len(appended) > HISTORY_MAX THEN Tail(appended) ELSE appended

\* Mutant: above the bound the newest entry is dropped.
PushHistoryDropsNewest(h, index, text) ==
  LET appended == Append(SubSeq(h, 1, index + 1), text) IN
  IF Len(appended) > HISTORY_MAX
  THEN SubSeq(appended, 1, HISTORY_MAX)
  ELSE appended

\* Mutant: the oldest entry is never dropped.
PushHistoryNoShift(h, index, text) == Append(SubSeq(h, 1, index + 1), text)

\* newHistory of the history timer's callback.
PushHistory(h, index, text) ==
  LET appended == Append(SubSeq(h, 1, index + 1), text) IN
  IF Len(appended) > HISTORY_MAX THEN Tail(appended) ELSE appended

\* What a commit by the timer t does besides appending: it cuts a redo tail,
\* drops the oldest entry, or neither.
CommitKind(t) ==
  IF t.historyIndex + 1 < Len(t.history) THEN "truncate"
  ELSE IF Len(t.history) + 1 > HISTORY_MAX THEN "shift"
  ELSE "append"

\* The callback of the history timer t, with the values its closure holds.
HistoryTimerFire(t) ==
  /\ t \in histTimers
  /\ t.remaining = 0
  /\ LET c == [Cur EXCEPT !.histTimers = @ \ {t}] IN
     IF t.text # t.history[t.historyIndex + 1]
     THEN LET newHistory == PushHistory(t.history, t.historyIndex, t.text) IN
          Render([c EXCEPT !.history = newHistory,
                           !.historyIndex = Len(newHistory) - 1,
                           !.lastCommit = CommitKind(t)])
     ELSE Render([c EXCEPT !.lastCommit = "same"])
  /\ UNCHANGED <<voice, speech, uploads, inputBudget, orch>>

\* ------------------------------------------------------------------ speech
\* Base64 of the synthesized audio, as atob reads it.
B64Alphabet ==
  <<"A", "B", "C", "D", "E", "F", "G", "H", "I", "J", "K", "L", "M", "N", "O",
    "P", "Q", "R", "S", "T", "U", "V", "W", "X", "Y", "Z", "a", "b", "c", "d",
    "e", "f", "g", "h", "i", "j", "k", "l", "m", "n", "o", "p", "q", "r", "s",
    "t", "u", "v", "w", "x", "y", "z", "0", "1", "2", "3", "4", "5", "6", "7",
    "8", "9", "+", "/">>

B64Value(c) == (CHOOSE i \in 1..64 : B64Alphabet[i] = c) - 1

IsB64Char(c) == \E i \in 1..64 : B64Alphabet[i] = c

\* The data characters of s: s without its '=' padding (at most two).
RECURSIVE StripPadding(_, _)
StripPadding(s, k) ==
  IF k > 0 /\ s # << >> /\ s[Len(s)] = "="
  THEN StripPadding(SubSeq(s, 1, Len(s) - 1), k - 1)
  ELSE s

\* atob first removes the ASCII white space of its argument: tab, LF, FF,
\* CR and space.
AsciiWhiteSpace == {" ", "\t", "\n", "\f", "\r"}
StripAsciiWhiteSpace(s) == SelectSeq(s, LAMBDA c : c \notin AsciiWhiteSpace)

\* atob accepts s: without white space, padded input has a length that is a
\* multiple of 4, the data characters are of the alphabet, and no single
\* character is left over.
AtobAccepts(s) ==
  LET w == StripAsciiWhiteSpace(s)
      d == StripPadding(w, 2) IN
  /\ Len(d) < Len(w) => Len(w) % 4 = 0
  /\ \A i \in 1..Len(d) : IsB64Char(d[i])
  /\ Len(d) % 4 # 1

RECURSIVE AtobData(_)
AtobData(d) ==
  IF Len(d) < 2 THEN << >>
  ELSE LET a == B64Value(d[1])
           b == B64Value(d[2])
           first == (a * 4 + b \div 16) % 256
       IN IF Len(d) = 2 THEN <<first>>
          ELSE LET c == B64Value(d[3])
                   second == ((b % 16) * 16 + c \div 4) % 256
               IN IF Len(d) = 3 THEN <<first, second>>
                  ELSE LET e == B64Value(d[4])
                           third == ((c % 4) * 64 + e) % 256
                       IN <<first, second, third>> \o AtobData(SubSeq(d, 5, Len(d)))

\* Mutant: the copy loop starts at the second character and the first byte
\* of the new array stays 0.
CopyBytesFromSecond(binary) ==
  [i \in 1..Len(binary) |-> IF i = 1 THEN 0 ELSE binary[i] % 256]

\* The copy loop of generateSpeech over the binary string of atob, given as
\* its character codes: bytes[i] = binaryString.charCodeAt(i) into a
\* Uint8Array, which keeps the low eight bits.
CopyBytes(binary) == [i \in 1..Len(binary) |-> binary[i] % 256]

\* The base64 decoder of generateSpeech, atob and the copy loop: the bytes
\* for the base64 text s.
Atob(s) == CopyBytes(AtobData(StripPadding(StripAsciiWhiteSpace(s), 2)))

\* One element of new Int16Array(buffer), little-endian.
Int16At(bytes, i) ==
  LET u == bytes[2 * i - 1] + 256 * bytes[2 * i] IN
  IF u >= 32768 THEN u - 65536 ELSE u

\* new Int16Array(buffer) throws for an odd byte length, createBuffer for a
\* length of zero.
DecodeAccepts(bytes) == Len(bytes) % 2 = 0 /\ Len(bytes) > 0

\* decodeGeminiPCM: the channel data, each sample as its numerator over 32768.
decodeGeminiPCM(bytes) == [i \in 1..(Len(bytes) \div 2) |-> Int16At(bytes, i)]

\* inlineData.data of the synthesis response; << >> stands for a response
\* without audio.
SynthPayloads ==
  {<< >>, <<"A", "A", "=", "=">>, <<"A", "I", "A", "=">>, <<"A">>}

\* Mutant: the guard ignores the in-progress flag.
SpeakAcceptsWhileSpeaking(text) == text # << >>

\* The guard of handleSpeak.
SpeakAccepts(text) == text # << >> /\ ~isSpeaking

\* handleSpeak up to its first await.
handleSpeak(text) ==
  /\ SpeakAccepts(text)
  /\ Len(speaks) < MaxSpeaks
  /\ isSpeaking' = TRUE
  /\ audioContextRef' = TRUE
  /\ speaks' = Append(speaks, [text |-> text, pc |-> "synth", samples |-> << >>])
  /\ UNCHANGED <<ui, orch, quietMs, voice, uploads>>
  /\ InputEvent

\* Mutant: the catch block removes the call and leaves the flag set.
SpeakCatchKeepsFlag(i) ==
  /\ isSpeaking' = isSpeaking
  /\ speaks' = Remove(speaks, i)

\* catch (err) of handleSpeak.
SpeakCatch(i) ==
  /\ isSpeaking' = FALSE
  /\ speaks' = Remove(speaks, i)

\* generateSpeech resolves or throws on the response, then decode and start.
SynthReturn(i, payload) ==
  /\ i \in 1..Len(speaks)
  /\ speaks[i].pc = "synth"
  /\ IF payload = << >> \/ ~AtobAccepts(payload) \/ ~DecodeAccepts(Atob(payload))
     THEN SpeakCatch(i)
     ELSE /\ speaks' = [speaks EXCEPT ![i].pc = "playing",
                                      ![i].samples = decodeGeminiPCM(Atob(payload))]
          /\ UNCHANGED isSpeaking
  /\ UNCHANGED <<ui, audioContextRef, orch, quietMs, voice, uploads, inputBudget>>

\* The synthesis request itself fails.
SynthFail(i) ==
  /\ i \in 1..Len(speaks)
  /\ speaks[i].pc = "synth"
  /\ SpeakCatch(i)
  /\ UNCHANGED <<ui, audioContextRef, orch, quietMs, voice, uploads, inputBudget>>

\* source.onended
PlaybackEnded(i) ==
  /\ i \in 1..Len(speaks)
  /\ speaks[i].pc = "playing"
  /\ isSpeaking' = FALSE
  /\ speaks' = Remove(speaks, i)
  /\ UNCHANGED <<ui, audioContextRef, orch, quietMs, voice, uploads, inputBudget>>

\* --------------------------------------------------------------- PCM codec
\* A sample is an integer number of quarter quantization steps: the sample n
\* stands for the float n / (4 * PCM_SCALE), which Float32 holds exactly.
PCM_SCALE == 32768
SampleUnit == 4 * PCM_SCALE

\* Conversion of a number to Int16: the fraction is dropped, towards zero,
\* and the integer is taken modulo 2^16 into [-32768, 32767].
TruncDiv(n, d) == IF n >= 0 THEN n \div d ELSE -((-n) \div d)
ToInt16(x) ==
  LET u == x % 65536 IN IF u >= 32768 THEN u - 65536 ELSE u

\* int16[i] = data[i] * 32768: the product (n / SampleUnit) * PCM_SCALE is
\* n / (SampleUnit / PCM_SCALE).
SampleToInt16(n) == ToInt16(TruncDiv(n, SampleUnit \div PCM_SCALE))

\* new Uint8Array(int16.buffer): two bytes per element, low byte first.
RECURSIVE Int16Bytes(_)
Int16Bytes(ints) ==
  IF ints = << >> THEN << >>
  ELSE LET u == Head(ints) % 65536 IN
       <<u % 256, u \div 256>> \o Int16Bytes(Tail(ints))

\* btoa of the binary string of the bytes.
RECURSIVE encode(_)
encode(bytes) ==
  IF bytes = << >> THEN << >>
  ELSE LET a == bytes[1]
           b == IF Len(bytes) > 1 THEN bytes[2] ELSE 0
           c == IF Len(bytes) > 2 THEN bytes[3] ELSE 0
           c1 == B64Alphabet[(a \div 4) + 1]
           c2 == B64Alphabet[((a % 4) * 16) + (b \div 16) + 1]
           c3 == B64Alphabet[((b % 16) * 4) + (c \div 64) + 1]
           c4 == B64Alphabet[(c % 64) + 1]
       IN IF Len(bytes) = 1 THEN <<c1, c2, "=", "=">>
          ELSE IF Len(bytes) = 2 THEN <<c1, c2, c3, "=">>
          ELSE <<c1, c2, c3, c4>> \o encode(SubSeq(bytes, 4, Len(bytes)))

\* createAudioBlob: the data field of the blob.
createAudioBlob(data) ==
  encode(Int16Bytes([i \in 1..Len(data) |-> SampleToInt16(data[i])]))

\* Longest byte sequence put through the base64 codec.
MaxBytes == 3
ByteValues == {0, 1, 127, 128, 255}
ByteSeqs == UNION {[1..n -> ByteValues] : n \in 0..MaxBytes}

\* The codec on its own: some bytes, chosen at the start, are encoded by
\* encode and the text is decoded as generateSpeech decodes its payload.
InitCodec ==
  /\ InitApp({{}})
  /\ inputBudget = NoInputLimit
  /\ \E b \in ByteSeqs :
       codec = [pc |-> "input", bytes |-> b, text |-> << >>, out |-> << >>,
                error |-> ""]

EncodeBytes ==
  /\ codec.pc = "input"
  /\ codec' = [codec EXCEPT !.pc = "encoded", !.text = encode(codec.bytes)]
  /\ UNCHANGED <<ui, quietMs, speech, uploads, inputBudget, orch, voiceCalls, voiceRefs, consecFail,
                 lastFrame>>

\* Messages of the errors generateSpeech throws on its payload.
NoAudioError == "No audio data returned"
InvalidCharacterError == "InvalidCharacterError"

\* generateSpeech from the payload on: an empty payload counts as no audio
\* and throws before atob; atob throws on a text it does not accept; else
\* the byte copy loop.
DecodeText ==
  /\ codec.pc = "encoded"
  /\ codec' = IF codec.text = << >>
              THEN [codec EXCEPT !.pc = "threw", !.error = NoAudioError]
              ELSE IF AtobAccepts(codec.text)
              THEN [codec EXCEPT !.pc = "decoded", !.out = Atob(codec.text)]
              ELSE [codec EXCEPT !.pc = "threw",
                                 !.error = InvalidCharacterError]
  /\ UNCHANGED <<ui, quietMs, speech, uploads, inputBudget, orch, voiceCalls, voiceRefs, consecFail,
                 lastFrame>>

\* ----------------------------------------------------------- voice session
\* Most startVoiceInput invocations in one run.
MaxStarts == 2
\* Longest source text dictation may build.
MaxTextLen == 3
\* Samples per captured frame.
MaxFrameLen == 2
\* Cap of the count of consecutive failed sends.
MaxFailedSends == 3
\* Most continuations registered on one pending connect() promise.
MaxReactions == 2

MicrophoneError == "Microphone access denied or connection failed."

\* inputTranscription.text of a server message.
TranscriptTexts == {<<"a">>}
\* Frames the capture graph delivers to onaudioprocess.
SampleValues == {0 - SampleUnit, 1 - SampleUnit, 0 - PCM_SCALE - 1, -3, -1, 0,
                 1, 2, 3, PCM_SCALE, SampleUnit - 1, SampleUnit}
FramesOf(values) ==
  UNION {[1..n -> values] : n \in 1..MaxFrameLen}

\* The refs and the invocations, as one record.
Voice ==
  [calls |-> voiceCalls, session |-> liveSessionPromiseRef,
   media |-> mediaStreamRef, ctx |-> inputAudioContextRef,
   nodes |-> voiceNodes]

SetVoice(v) ==
  /\ voiceCalls' = v.calls
  /\ liveSessionPromiseRef' = v.session
  /\ mediaStreamRef' = v.media
  /\ inputAudioContextRef' = v.ctx
  /\ voiceNodes' = v.nodes

\* What one startVoiceInput invocation has acquired and what was released.
\* pc: "media" (awaiting getUserMedia), "denied", "failed" (a throw after
\* getUserMedia resolved), "connecting", "open", "closing" (close or error
\* seen, onclose not yet delivered), "closed".
\* reactions: what waits for the connect() promise while it is pending, in
\* the order of registration: "stop" for a stopVoiceInput suspended at its
\* await, "sent" or "failed" for the then() callback of a captured frame,
\* named by what its sendRealtimeInput will do.
NewVoiceCall ==
  [pc |-> "media", promise |-> "none", reactions |-> << >>,
   graph |-> "none", graphCtx |-> 0,
   sessionCloses |-> 0, trackStops |-> 0, ctxCloses |-> 0, nodeDetaches |-> 0]

\* stopVoiceInput after its await: the four releases, in the order of the
\* code, each guarded by its ref; `s` is the invocation whose session the
\* await returned, 0 when the ref was null.  A throwing session.close() ends
\* the function there.  `done` tells whether setIsRecording(false) was
\* reached.
StopRelease(v, s, closeThrows) ==
  IF s # 0 /\ closeThrows
  THEN [v |-> v, done |-> FALSE]
  ELSE LET m == v.media
           c == v.ctx
           g == v.nodes
           c1 == IF s = 0 THEN v.calls
                 ELSE [v.calls EXCEPT ![s].sessionCloses = @ + 1,
                                      ![s].pc = IF @ = "open" THEN "closing" ELSE @]
           c2 == IF m = 0 THEN c1 ELSE [c1 EXCEPT ![m].trackStops = @ + 1]
           c3 == IF c = 0 THEN c2 ELSE [c2 EXCEPT ![c].ctxCloses = @ + 1]
           c4 == IF g = 0 THEN c3
                 ELSE [c3 EXCEPT ![g].nodeDetaches = @ + 1,
                                 ![g].graph = "detached"]
       IN [v |-> [calls |-> c4, session |-> 0, media |-> 0, ctx |-> 0,
                  nodes |-> 0],
           done |-> TRUE]

\* stopVoiceInput: it awaits the connect() promise the ref holds.  On a
\* pending promise it stays suspended, on a rejected one the await throws.
StopUpdate(v, closeThrows) ==
  IF v.session # 0 /\ v.calls[v.session].promise = "pending"
  THEN [v |-> [v EXCEPT !.calls[v.session].reactions = Append(@, "stop")],
        done |-> FALSE]
  ELSE IF v.session # 0 /\ v.calls[v.session].promise = "rejected"
       THEN [v |-> v, done |-> FALSE]
       ELSE StopRelease(v, v.session, closeThrows)

\* One more continuation fits on the promise the ref holds.
ReactionFits(v) ==
  (v.session # 0 /\ v.calls[v.session].promise = "pending")
    => Len(v.calls[v.session].reactions) < MaxReactions

\* The count of consecutive failed sends after one more send.
AfterSend(fails, sent) ==
  IF sent THEN 0
  ELSE IF fails < MaxFailedSends THEN fails + 1 ELSE fails

\* The connect() promise of invocation k resolves: its continuations run in
\* the order of registration, each suspended stopVoiceInput through its
\* releases with the session of k, each then() callback through its send.
RECURSIVE RunReactions(_, _, _, _)
RunReactions(st, k, rs, closeThrows) ==
  IF rs = << >> THEN st
  ELSE LET next ==
             IF Head(rs) = "stop"
             THEN LET o == StopRelease(st.v, k, closeThrows) IN
                  [v |-> o.v, done |-> st.done \/ o.done,
                   fails |-> IF o.v.session # st.v.session THEN 0 ELSE st.fails]
             ELSE [st EXCEPT !.fails = AfterSend(@, Head(rs) = "sent")]
       IN RunReactions(next, k, Tail(rs), closeThrows)

\* Commit the outcome of a stopVoiceInput invocation.
CommitStop(out, c) ==
  /\ SetVoice(out.v)
  /\ Render(IF out.done THEN [c EXCEPT !.isRecording = FALSE] ELSE c)

stopVoiceInput(closeThrows) ==
  /\ ReactionFits(Voice)
  /\ CommitStop(StopUpdate(Voice, closeThrows), Cur)
  /\ consecFail' = IF liveSessionPromiseRef' # liveSessionPromiseRef THEN 0 ELSE consecFail
  /\ UNCHANGED <<speech, uploads, orch, lastFrame, codec>>
  /\ InputEvent

\* startVoiceInput up to await getUserMedia.
startVoiceInput ==
  /\ Len(voiceCalls) < MaxStarts
  /\ voiceCalls' = Append(voiceCalls, NewVoiceCall)
  /\ Render([Cur EXCEPT !.error = Null])
  /\ UNCHANGED <<speech, uploads, orch, voiceRefs, consecFail, lastFrame, codec>>
  /\ InputEvent

\* toggleVoiceInput, from the microphone button or Ctrl+Shift+V.
toggleVoiceInput(closeThrows) ==
  IF isRecording THEN stopVoiceInput(closeThrows)
  ELSE ~closeThrows /\ startVoiceInput

\* getUserMedia resolves: the stream and a new context are stored in the
\* refs and connect() is called.
MediaGranted(k) ==
  /\ k \in 1..Len(voiceCalls)
  /\ voiceCalls[k].pc = "media"
  /\ voiceCalls' = [voiceCalls EXCEPT ![k].pc = "connecting",
                                      ![k].promise = "pending"]
  /\ mediaStreamRef' = k
  /\ inputAudioContextRef' = k
  /\ liveSessionPromiseRef' = k
  /\ consecFail' = 0
  /\ UNCHANGED <<ui, quietMs, speech, uploads, inputBudget, orch, voiceNodes, lastFrame, codec>>

\* getUserMedia resolves and the stream is stored in its ref; then
\* getAIInstance() or the AudioContext constructor throws (at = "context"),
\* or connect() throws after the context was stored (at = "connect"): catch
\* of startVoiceInput, with the stream still in its ref and running.
StartThrowPoints == {"context", "connect"}
StartFails(k, at) ==
  /\ k \in 1..Len(voiceCalls)
  /\ voiceCalls[k].pc = "media"
  /\ voiceCalls' = [voiceCalls EXCEPT ![k].pc = "failed"]
  /\ mediaStreamRef' = k
  /\ inputAudioContextRef' = IF at = "connect" THEN k ELSE inputAudioContextRef
  /\ Render([Cur EXCEPT !.error = MicrophoneError])
  /\ UNCHANGED <<speech, uploads, inputBudget, orch, liveSessionPromiseRef, voiceNodes, consecFail,
                 lastFrame, codec>>

\* getUserMedia rejects: catch of startVoiceInput.
MediaDenied(k) ==
  /\ k \in 1..Len(voiceCalls)
  /\ voiceCalls[k].pc = "media"
  /\ voiceCalls' = [voiceCalls EXCEPT ![k].pc = "denied"]
  /\ Render([Cur EXCEPT !.error = MicrophoneError])
  /\ UNCHANGED <<speech, uploads, inputBudget, orch, voiceRefs, consecFail, lastFrame, codec>>

\* onopen of session k, then the resolution of its connect() promise, which
\* runs what was registered on it: every stopVoiceInput suspended on it and
\* the send of every frame captured meanwhile.  With the context ref null
\* the callback throws after setIsRecording(true); the promise may then
\* stay pending.
onopen(k, closeThrows, resolves) ==
  /\ k \in 1..Len(voiceCalls)
  /\ voiceCalls[k].pc = "connecting"
  /\ LET threw == inputAudioContextRef = 0
         resolved == ~threw \/ resolves
         opened == [Voice EXCEPT
                      !.calls[k].pc = "open",
                      !.calls[k].promise = IF resolved THEN "resolved" ELSE @,
                      !.calls[k].reactions = IF resolved THEN << >> ELSE @,
                      !.calls[k].graph = IF threw THEN @ ELSE "attached",
                      !.calls[k].graphCtx = IF threw THEN @ ELSE inputAudioContextRef,
                      !.nodes = IF threw THEN @ ELSE k]
         c == [Cur EXCEPT !.isRecording = TRUE]
         rs == IF resolved THEN voiceCalls[k].reactions ELSE << >>
         out == RunReactions([v |-> opened, done |-> FALSE, fails |-> consecFail],
                             k, rs, closeThrows)
     IN /\ (~threw => resolves)
        /\ (\A i \in 1..Len(rs) : rs[i] # "stop") => ~closeThrows
        /\ CommitStop(out, c)
        /\ consecFail' = out.fails
  /\ UNCHANGED <<speech, uploads, inputBudget, orch, lastFrame, codec>>

\* setSourceText(prev => (prev ? prev + ' ' + text : text))
TranscriptUpdate(prev, text) ==
  IF prev # << >> THEN prev \o <<" ">> \o text ELSE text

\* onmessage of session k with an input transcription.
onmessage(k, text) ==
  /\ k \in 1..Len(voiceCalls)
  /\ voiceCalls[k].pc = "open"
  /\ Len(TranscriptUpdate(sourceText, text)) <= MaxTextLen
  /\ Render([Cur EXCEPT !.sourceText = TranscriptUpdate(sourceText, text)])
  /\ UNCHANGED <<speech, uploads, orch, voice>>
  /\ InputEvent

\* onerror of session k: stopVoiceInput() is called; the connection is on
\* its way down and a connect() promise still pending stays pending.
onerror(k, closeThrows) ==
  /\ k \in 1..Len(voiceCalls)
  /\ voiceCalls[k].pc \in {"connecting", "open"}
  /\ ReactionFits(Voice)
  /\ CommitStop(StopUpdate([Voice EXCEPT !.calls[k].pc = "closing"], closeThrows),
                Cur)
  /\ consecFail' = IF liveSessionPromiseRef' # liveSessionPromiseRef THEN 0 ELSE consecFail
  /\ UNCHANGED <<speech, uploads, inputBudget, orch, lastFrame, codec>>

\* onclose of session k: after a close by either side or after an error.
onclose(k) ==
  /\ k \in 1..Len(voiceCalls)
  /\ voiceCalls[k].pc \in {"open", "closing"}
  /\ voiceCalls' = [voiceCalls EXCEPT ![k].pc = "closed"]
  /\ Render([Cur EXCEPT !.isRecording = FALSE])
  /\ UNCHANGED <<speech, uploads, inputBudget, orch, voiceRefs, consecFail, lastFrame, codec>>

\* The connect() promise of a session that failed before it opened rejects:
\* a stopVoiceInput suspended on it throws at its await.
ConnectReject(k) ==
  /\ k \in 1..Len(voiceCalls)
  /\ voiceCalls[k].pc \in {"closing", "closed"}
  /\ voiceCalls[k].promise = "pending"
  /\ voiceCalls' = [voiceCalls EXCEPT ![k].promise = "rejected",
                                      ![k].reactions = << >>]
  /\ UNCHANGED <<ui, quietMs, speech, uploads, inputBudget, orch, voiceRefs, consecFail, lastFrame, codec>>

\* onaudioprocess of the graph onopen(k) built: the frame is encoded and
\* then() is called on the promise the ref holds.  On a resolved promise the
\* frame is sent at once, on a pending one when it resolves, on a rejected
\* one never; `sent` is whether sendRealtimeInput returns.  A throw inside
\* then() is an unhandled rejection and nothing else.
onaudioprocess(k, frame, sent) ==
  /\ k \in 1..Len(voiceCalls)
  /\ voiceCalls[k].graph = "attached"
  /\ voiceCalls[voiceCalls[k].graphCtx].ctxCloses = 0
  /\ voiceCalls[k].trackStops = 0
  /\ lastFrame' = [samples |-> frame, data |-> createAudioBlob(frame)]
  /\ UNCHANGED codec
  /\ ReactionFits(Voice)
  /\ LET p == IF liveSessionPromiseRef = 0 THEN "none"
              ELSE voiceCalls[liveSessionPromiseRef].promise
     IN /\ consecFail' = IF p = "resolved" THEN AfterSend(consecFail, sent)
                          ELSE consecFail
        /\ voiceCalls' =
             IF p = "pending"
             THEN [voiceCalls EXCEPT
                     ![liveSessionPromiseRef].reactions =
                        Append(@, IF sent THEN "sent" ELSE "failed")]
             ELSE voiceCalls
  /\ UNCHANGED <<ui, quietMs, speech, uploads, inputBudget, orch, voiceRefs>>

\* ---------------------------------------------------------- specifications
\* Input sets of the specifications.
CoreTexts == {<< >>, <<"a">>, <<"a", "b">>}
CoreSourceLangs == {"auto", "en"}
HistTexts == {<<"a">>, <<"a", "b">>}
SpeakTexts == {<< >>, <<"a">>}

\* Orchestrator: requests, generations, service responses.
Service ==
  \/ \E r \in requests, raw \in RawChunks : StreamChunk(r, raw)
  \/ \E r \in requests : StreamEnd(r)
  \/ \E r \in requests, m \in ErrorMessages : StreamFail(r, m)
  \/ \E r \in requests, res \in DetectResults : DetectReturn(r, res)
  \/ \E r \in requests, m \in ErrorMessages : DetectFail(r, m)

Next ==
  \/ \E t \in CoreTexts : TypeText(t)
  \/ \E l \in CoreSourceLangs : SetSourceLang(l)
  \/ handleClear
  \/ Tick
  \/ \E t \in debounceTimers : DebounceFire(t)
  \/ Service

Spec == Init /\ [][Next]_vars

\* Debounce: typing, language and tab changes against the timer.
NextDebounce ==
  \/ \E t \in TypedTexts : TypeText(t)
  \/ \E l \in SUPPORTED_LANGUAGES : SetSourceLang(l)
  \/ \E l \in TargetLanguages : SetTargetLang(l)
  \/ \E tab \in {"text", "document"} : SetActiveTab(tab)
  \/ Tick
  \/ \E t \in debounceTimers : DebounceFire(t)
  \/ \E r \in requests : StreamEnd(r)

SpecDebounce == Init /\ [][NextDebounce]_vars

\* Swap against typing and streaming.
NextSwap ==
  \/ \E t \in SpeakTexts : TypeText(t)
  \/ \E l \in CoreSourceLangs : SetSourceLang(l)
  \/ handleSwap
  \/ Tick
  \/ \E t \in debounceTimers : DebounceFire(t)
  \/ \E r \in requests, raw \in RawChunks : StreamChunk(r, raw)
  \/ \E r \in requests : StreamEnd(r)

SpecSwap == Init /\ [][NextSwap]_vars

\* Undo/redo history.
NextHistory ==
  \/ \E t \in HistTexts : TypeText(t)
  \/ handleUndo
  \/ handleRedo
  \/ Tick
  \/ \E t \in histTimers : HistoryTimerFire(t)

SpecHistory == InitRestored /\ [][NextHistory]_vars

\* Speech playback.
SpeakStep ==
  \/ \E i \in 1..Len(speaks), p \in SynthPayloads : SynthReturn(i, p)
  \/ \E i \in 1..Len(speaks) : SynthFail(i)
  \/ \E i \in 1..Len(speaks) : PlaybackEnded(i)

NextSpeak ==
  \/ \E t \in SpeakTexts : TypeText(t)
  \/ Tick
  \/ \E t \in debounceTimers : DebounceFire(t)
  \/ \E r \in requests, raw \in RawChunks : StreamChunk(r, raw)
  \/ handleSpeak(sourceText)
  \/ handleSpeak(targetText)
  \/ SpeakStep

SpecSpeak == Init /\ [][NextSpeak]_vars

\* The service answers every synthesis request and every playback ends.
SpecSpeakFair == SpecSpeak /\ WF_vars(SpeakStep)

\* Language selection: both selectors and swap, against the debounce.
NextLang ==
  \/ TypeText(<<"a">>)
  \/ \E l \in SUPPORTED_LANGUAGES : SetSourceLang(l)
  \/ \E l \in TargetLanguages : SetTargetLang(l)
  \/ handleSwap
  \/ Tick
  \/ \E t \in debounceTimers : DebounceFire(t)
  \/ \E r \in requests : StreamEnd(r)

SpecLang == Init /\ [][NextLang]_vars

\* Every input event against the orchestrator, the voice session and the
\* service, in any order, for a user who produces at most MaxInputEvents
\* input events and then stops.
LiveTexts == {<<"a">>, <<" ">>}

InitLive ==
  InitApp({{}}) /\ codec = NoCodecRun /\ inputBudget = MaxInputEvents

NextLive ==
  \/ \E t \in LiveTexts : TypeText(t)
  \/ \E l \in SUPPORTED_LANGUAGES : SetSourceLang(l)
  \/ \E l \in TargetLanguages : SetTargetLang(l)
  \/ \E tab \in {"text", "document"} : SetActiveTab(tab)
  \/ handleSwap
  \/ handleClear
  \/ toggleVoiceInput(FALSE)
  \/ \E k \in 1..Len(voiceCalls) : MediaGranted(k)
  \/ \E k \in 1..Len(voiceCalls) : MediaDenied(k)
  \/ \E k \in 1..Len(voiceCalls) : onopen(k, FALSE, TRUE)
  \/ \E k \in 1..Len(voiceCalls), text \in TranscriptTexts : onmessage(k, text)
  \/ \E k \in 1..Len(voiceCalls) : onerror(k, FALSE)
  \/ \E k \in 1..Len(voiceCalls) : onclose(k)
  \/ Tick
  \/ \E t \in debounceTimers : DebounceFire(t)
  \/ Service

\* Every service call returns or fails; the user is under no obligation.
SpecLive == InitLive /\ [][NextLive]_vars /\ WF_vars(Service)

\* Persistence of the draft: start-up with or without a saved text, edits,
\* tab changes and Clear.
NextPersist ==
  \/ \E t \in CoreTexts : TypeText(t)
  \/ \E tab \in {"text", "document"} : SetActiveTab(tab)
  \/ handleClear
  \/ \E file \in UploadFiles : handleFileUpload(file)
  \/ \E i \in 1..Len(uploads) : FileLoaded(i)
  \/ \E i \in 1..Len(uploads) : DocumentTranslated(i)
  \/ \E i \in 1..Len(uploads), m \in ErrorMessages : DocumentFails(i, m)
  \/ Tick
  \/ \E t \in debounceTimers : DebounceFire(t)

SpecPersist == InitRestored /\ [][NextPersist]_vars

\* Voice session against typing and the debounce.
VoiceFrames == {<<0>>}

VoiceStep ==
  \/ \E k \in 1..Len(voiceCalls) : MediaGranted(k)
  \/ \E k \in 1..Len(voiceCalls) : MediaDenied(k)
  \/ \E k \in 1..Len(voiceCalls), at \in StartThrowPoints : StartFails(k, at)
  \/ \E k \in 1..Len(voiceCalls), closeThrows, resolves \in BOOLEAN :
        onopen(k, closeThrows, resolves)
  \/ \E k \in 1..Len(voiceCalls), text \in TranscriptTexts : onmessage(k, text)
  \/ \E k \in 1..Len(voiceCalls), closeThrows \in BOOLEAN : onerror(k, closeThrows)
  \/ \E k \in 1..Len(voiceCalls) : onclose(k)
  \/ \E k \in 1..Len(voiceCalls) : ConnectReject(k)

NextVoice ==
  \/ \E t \in SpeakTexts : TypeText(t)
  \/ \E closeThrows \in BOOLEAN : toggleVoiceInput(closeThrows)
  \/ VoiceStep
  \/ \E k \in 1..Len(voiceCalls), frame \in VoiceFrames, sent \in BOOLEAN :
        onaudioprocess(k, frame, sent)
  \/ Tick
  \/ \E t \in debounceTimers : DebounceFire(t)

SpecVoice == Init /\ [][NextVoice]_vars

\* Dictation against typing and the debounce, with texts of white space:
\* the session opens and closes without failures of the service.
DictationTyped == {<< >>, <<" ">>, <<"a">>}
DictatedTexts == {<<"a">>, <<" ">>}

NextDictation ==
  \/ \E t \in DictationTyped : TypeText(t)
  \/ toggleVoiceInput(FALSE)
  \/ \E k \in 1..Len(voiceCalls) : MediaGranted(k)
  \/ \E k \in 1..Len(voiceCalls) : MediaDenied(k)
  \/ \E k \in 1..Len(voiceCalls) : onopen(k, FALSE, TRUE)
  \/ \E k \in 1..Len(voiceCalls), text \in DictatedTexts : onmessage(k, text)
  \/ \E k \in 1..Len(voiceCalls) : onerror(k, FALSE)
  \/ \E k \in 1..Len(voiceCalls) : onclose(k)
  \/ \E k \in 1..Len(voiceCalls), frame \in VoiceFrames :
        onaudioprocess(k, frame, TRUE)
  \/ Tick
  \/ \E t \in debounceTimers : DebounceFire(t)

SpecDictation == Init /\ [][NextDictation]_vars

\* The capture path: frames of every sample value through the codec.
NextPcm ==
  \/ toggleVoiceInput(FALSE)
  \/ \E k \in 1..Len(voiceCalls) : MediaGranted(k)
  \/ \E k \in 1..Len(voiceCalls) : onopen(k, FALSE, TRUE)
  \/ \E k \in 1..Len(voiceCalls), frame \in FramesOf(SampleValues) :
        onaudioprocess(k, frame, TRUE)

SpecPcm == Init /\ [][NextPcm]_vars

\* The base64 codec.
NextCodec == EncodeBytes \/ DecodeText

SpecCodec == InitCodec /\ [][NextCodec]_vars

\* One text and its stream: fragments that differ, completion, detection.
StreamChunks == {<< >>, <<"x">>, <<"y">>}

NextStream ==
  \/ \E t \in SpeakTexts : TypeText(t)
  \/ \E l \in CoreSourceLangs : SetSourceLang(l)
  \/ Tick
  \/ \E t \in debounceTimers : DebounceFire(t)
  \/ \E r \in requests, raw \in StreamChunks : StreamChunk(r, raw)
  \/ \E r \in requests : StreamEnd(r)
  \/ \E r \in requests, res \in DetectResults : DetectReturn(r, res)

SpecStream == Init /\ [][NextStream]_vars

\* ------------------------------------------------------------------ claims
\* What the user sees of a translation.
display == <<targetText, detectedLang, confidence, error, status>>

\* Request r takes a step: it leaves the set of suspended requests as it was.
Steps(r) == r \in requests /\ r \notin requests'

\* C1: a fragment of an older request that arrives after a newer request was
\* issued does not change the displayed target text.
C1_StaleFragmentsDropped ==
  [][\A r \in requests :
       (Steps(r) /\ r.pc = "stream" /\ r.streamId < activeStreamRef)
         => targetText' = targetText]_vars

\* A newer request is streaming while an older one, which has already
\* delivered a fragment, can still deliver another.
C1_Witness ==
  \E r, q \in requests :
    /\ r.pc = "stream" /\ q.pc = "stream"
    /\ r.streamId < q.streamId /\ q.streamId = activeStreamRef
    /\ r.fullText # << >> /\ Len(r.fullText) < MaxFrag
    /\ targetText # r.fullText

\* C2: a request of a generation that is no longer current never changes
\* target text, detected language, confidence, error or status, at whichever
\* point of its execution it is.
C2_StaleNeverMutatesDisplay ==
  [][\A r \in requests :
       (Steps(r) /\ r.streamId # activeStreamRef) => UNCHANGED display]_vars

\* C3 as claimed: every expiry of the debounce timer issues one streaming
\* call, for the text the burst ended with.
C3_EveryBurstIssuesOneCall ==
  [][\A t \in debounceTimers :
       DebounceFire(t)
         => /\ activeStreamRef' = activeStreamRef + 1
            /\ \E r \in requests' \ requests : r.text = sourceText]_vars

\* C3 as amended: a streaming call is issued only by the expiry of the one
\* pending debounce timer, 300 ms or more after the last change of the source
\* text, in text mode and not recording; it is one call, for the current
\* source text, which is not blank, and it leaves no timer pending.  The
\* expiry issues no call when the text is blank.
C3_OneCallPerNonBlankBurst ==
  [][/\ Cardinality(debounceTimers') <= 1
     /\ activeStreamRef' # activeStreamRef
          => /\ quietMs >= DEBOUNCE_MS
             /\ activeTab = "text" /\ ~isRecording
             /\ Trim(sourceText) # << >>
             /\ activeStreamRef' = activeStreamRef + 1
             /\ \E r \in requests' \ requests :
                  /\ requests' = requests \cup {r}
                  /\ r.streamId = activeStreamRef'
                  /\ r.text = sourceText /\ sourceText' = sourceText
                  /\ r.sourceLang = sourceLang /\ r.targetLang = targetLang
             /\ debounceTimers' = {}
     /\ \A t \in debounceTimers :
          DebounceFire(t)
            => IF Trim(sourceText) = << >>
               THEN activeStreamRef' = activeStreamRef /\ requests' = requests
               ELSE activeStreamRef' = activeStreamRef + 1]_vars

\* "a" then "ab" were typed and one call, for "ab", is in flight; a later
\* burst ended blank and its expiry has cleared the translation.
C3_Witness ==
  /\ activeStreamRef = 1
  /\ \E r \in requests : r.streamId = 1 /\ r.text = <<"a", "b">>
  /\ sourceText = <<" ">> /\ quietMs >= DEBOUNCE_MS /\ debounceTimers = {}
  /\ activeTab = "text"

\* C4: after Clear, no step of a request issued before the Clear changes
\* target text, detected language, confidence, status or error.
C4_ClearDiscardsInFlight ==
  [][\A r \in requests :
       (Steps(r) /\ r.streamId \in preClear) => UNCHANGED display]_vars

\* C5: the history holds at most 50 entries and the cursor is one of them.
C5_HistoryBounded ==
  /\ Len(history) <= HISTORY_MAX
  /\ 0 <= historyIndex /\ historyIndex < Len(history)

\* The history is full and has lost its first entries to the bound; the
\* cursor has been moved back by undo.
C5_Witness ==
  /\ Len(history) = HISTORY_MAX
  /\ history[1] = <<"a", "b">>
  /\ historyIndex = HISTORY_MAX - 3

\* The state after undo and then redo, each with its re-render.
UndoThenRedo ==
  LET undone == Effects(Cur, UndoUpdate(Cur)) IN
  Effects(undone, RedoUpdate(undone))

\* C6: undo followed at once by redo restores the source text, typed and not
\* yet committed text included; undo at the first entry and redo at the last
\* are no-ops.
C6_UndoRedoRestores ==
  /\ historyIndex > 0 => UndoThenRedo.sourceText = sourceText
  /\ historyIndex = 0 => UndoUpdate(Cur) = Cur
  /\ historyIndex = Len(history) - 1 => RedoUpdate(Cur) = Cur

\* C7: a failure of the current generation sets status Error and a non-empty
\* message and leaves the target text equal to the fragments received.
C7_FailurePreservesPartial ==
  [][\A r \in requests : \A m \in ErrorMessages :
       (r.streamId = activeStreamRef /\ (StreamFail(r, m) \/ DetectFail(r, m)))
         => /\ status' = ERROR
            /\ error' \notin {Null, ""}
            /\ targetText' = r.fullText]_vars

\* C8: swap does nothing when sourceLang is "auto"; otherwise it exchanges
\* the languages and the texts and restarts the debounce for the new source
\* text.
C8_SwapExchanges ==
  [][handleSwap
       => IF sourceLang = "auto"
          THEN UNCHANGED vars
          ELSE /\ sourceLang' = targetLang /\ targetLang' = sourceLang
               /\ sourceText' = targetText /\ targetText' = sourceText
               /\ (activeTab = "text" /\ ~isRecording /\ targetText # << >>)
                    => debounceTimers' = {[text |-> targetText,
                                           sourceLang |-> targetLang,
                                           targetLang |-> sourceLang,
                                           remaining |-> DEBOUNCE_MS]}]_vars

\* C9: at most one synthesis or playback is in progress, and none is ever
\* started for an empty text.
C9_SingleFlight ==
  /\ Len(speaks) <= 1
  /\ \A i \in 1..Len(speaks) : speaks[i].text # << >>

\* A synthesis is in flight while both speak buttons have a text to speak.
C9_Witness ==
  /\ Len(speaks) = 1 /\ speaks[1].pc = "synth" /\ isSpeaking
  /\ sourceText # << >> /\ targetText # << >>

\* C10: once set, the in-progress flag is eventually cleared.
C10_FlagEventuallyCleared == isSpeaking ~> ~isSpeaking

\* A speak call was accepted and the flag is clear again.
C10_Witness == audioContextRef /\ ~isSpeaking /\ speaks = << >>

\* Invocation k got past connect(): it holds a capture stream, a context
\* and a session.
Acquired(k) == voiceCalls[k].pc \notin {"media", "denied", "failed"}

\* Invocation k got past getUserMedia: it holds a capture stream.
DeviceAcquired(k) == voiceCalls[k].pc \notin {"media", "denied"}

\* stopVoiceInput is called: by the toggle while recording, or by onerror.
StopInvoked ==
  \/ isRecording /\ \E closeThrows \in BOOLEAN : toggleVoiceInput(closeThrows)
  \/ \E k \in 1..Len(voiceCalls), closeThrows \in BOOLEAN : onerror(k, closeThrows)

\* C11: a call of stop() leaves every started session with its four releases
\* done, each exactly once: session closed, tracks stopped, context closed,
\* graph detached (when one was attached); also when a release throws, when
\* the session never connected and when stop() is called again.
C11_StopReleasesAll ==
  [][StopInvoked
       => \A k \in 1..Len(voiceCalls) :
            Acquired(k)
              => /\ voiceCalls'[k].sessionCloses = 1
                 /\ voiceCalls'[k].trackStops = 1
                 /\ voiceCalls'[k].ctxCloses = 1
                 /\ voiceCalls'[k].graph # "none" => voiceCalls'[k].nodeDetaches = 1]_vars

\* C12: a second session, capture stream and audio context are created only
\* once every earlier session is torn down: none is connecting or open and
\* none still holds a live capture stream or an open context.
C12_OneSessionAtATime ==
  [][\A k \in 1..Len(voiceCalls) :
       MediaGranted(k)
         => \A j \in 1..Len(voiceCalls) :
              (j # k /\ Acquired(j))
                => /\ voiceCalls[j].pc \notin {"connecting", "open"}
                   /\ voiceCalls[j].trackStops > 0
                   /\ voiceCalls[j].ctxCloses > 0]_vars

\* C13: while recording is active no debounce timer is pending (one pending
\* when recording becomes active is cancelled, none is started) and no
\* streaming translate request is issued.
C13_NoDebounceWhileRecording ==
  [][/\ isRecording' => debounceTimers' = {}
     /\ isRecording
          => /\ activeStreamRef' = activeStreamRef
             /\ {r.streamId : r \in requests'} \subseteq {r.streamId : r \in requests}]_vars

\* Recording is active in text mode over a non-empty source text that has
\* been quiet for the debounce interval, and nothing was translated.
C13_Witness ==
  /\ isRecording /\ activeTab = "text"
  /\ sourceText # << >> /\ quietMs >= DEBOUNCE_MS
  /\ debounceTimers = {} /\ activeStreamRef = 0

\* C14: when the stream of a current request completes, a request made with
\* sourceLang "auto" goes on to one structured call, and publishes nothing
\* before it returns; a request made with another sourceLang makes no
\* structured call.  A structured call is made by a request once, after its
\* stream, and its detected language and confidence are published exactly
\* when the generation is still current at its return.
C14_DetectOnlyForAuto ==
  [][/\ \A r \in requests :
          (StreamEnd(r) /\ r.streamId = activeStreamRef)
            => IF r.sourceLang = "auto"
               THEN /\ requests' = (requests \ {r}) \cup {[r EXCEPT !.pc = "detect"]}
                    /\ UNCHANGED <<detectedLang, confidence>>
               ELSE /\ requests' = requests \ {r}
                    /\ UNCHANGED <<detectedLang, confidence>>
     /\ \A r \in requests' :
          r.pc = "detect"
            => /\ r.sourceLang = "auto"
               /\ r \in requests \/ [r EXCEPT !.pc = "stream"] \in requests
     /\ \A r \in requests : \A res \in DetectResults :
          DetectReturn(r, res)
            => IF r.streamId = activeStreamRef
               THEN /\ detectedLang' = res.detectedLanguage
                    /\ confidence' = res.confidence
               ELSE UNCHANGED <<detectedLang, confidence>>]_vars

\* Two requests were issued; the structured call of the current one, made
\* with "auto", has returned and its result is shown.
C14_Witness ==
  /\ activeStreamRef = 2 /\ requests = {}
  /\ sourceLang = "auto" /\ status = SUCCESS
  /\ detectedLang = "en" /\ confidence = 95

\* C15: the step that makes the source text empty in text mode leaves status
\* Idle and target text, detected language and confidence cleared, with no
\* debounce timer pending and no service call issued.
C15_EmptyTextResetsAtOnce ==
  [][(sourceText # << >> /\ sourceText' = << >> /\ activeTab' = "text")
       => /\ status' = IDLE
          /\ targetText' = << >> /\ detectedLang' = "" /\ confidence' = 0
          /\ debounceTimers' = {}
          /\ activeStreamRef' = activeStreamRef /\ requests' = requests]_vars

\* The text has just been emptied while a request is streaming and has
\* delivered a fragment: the output is cleared and the status is Idle.
C15_Witness ==
  /\ sourceText = << >> /\ quietMs = 0 /\ activeTab = "text"
  /\ \E r \in requests : r.streamId = activeStreamRef /\ r.fullText # << >>
  /\ status = IDLE /\ targetText = << >>

\* C16: after Clear, after an edit that empties the source text and after
\* the start of a new translation request, the error message is cleared and
\* the status is not Error.
C16_RecoveryResetsError ==
  [][(\/ handleClear
      \/ sourceText # << >> /\ TypeText(<< >>)
      \/ activeStreamRef' # activeStreamRef)
       => error' = Null /\ status' # ERROR]_vars

\* C17: at start-up a saved non-empty text is the source text and the only
\* history entry, with cursor 0; and each step that changes the source text
\* in text mode leaves it stored under the key.
C17_DraftPersisted ==
  /\ \A t \in stored :
       t # << >> => sourceText = t /\ history = <<t>> /\ historyIndex = 0
  /\ [][(sourceText' # sourceText /\ activeTab' = "text")
          => stored' = {sourceText'}]_vars

\* The saved text "a" was restored as the only history entry, and the text
\* typed after it is what the store holds now.
C17_Witness ==
  /\ history = << <<"a">> >> /\ historyIndex = 0
  /\ sourceText = <<"a", "b">> /\ stored = {<<"a", "b">>}
  /\ activeTab = "text"

\* C18: on an open session a failed frame send that is the first or the
\* second in a row leaves the session open, and the third in a row closes it.
C18_ThreeFailedSendsClose ==
  [][\A k \in 1..Len(voiceCalls) : \A frame \in VoiceFrames :
       (/\ onaudioprocess(k, frame, FALSE)
        /\ liveSessionPromiseRef # 0
        /\ voiceCalls[liveSessionPromiseRef].promise = "resolved"
        /\ voiceCalls[liveSessionPromiseRef].pc = "open")
         => IF consecFail' < 3
            THEN voiceCalls'[liveSessionPromiseRef].pc = "open"
            ELSE voiceCalls'[liveSessionPromiseRef].pc # "open"]_vars

\* The debounce timer a change to the text `text` starts.
FreshTimer(text) ==
  [text |-> text, sourceLang |-> sourceLang, targetLang |-> targetLang,
   remaining |-> DEBOUNCE_MS]

\* C19 as claimed: a transcript fragment applied in text mode (re)starts the
\* 300 ms timer for the updated text, as a typed change does.
C19_TranscriptRestartsDebounce ==
  [][\A k \in 1..Len(voiceCalls) : \A text \in DictatedTexts :
       (onmessage(k, text) /\ activeTab = "text")
         => debounceTimers' = {FreshTimer(sourceText')}]_vars

\* C19 as amended: a transcript fragment is joined to the source text; while
\* isRecording is set it starts no timer and issues no request, and when
\* isRecording is not set it restarts the timer as a typed change does.  The
\* step that ends recording over a non-empty text in text mode starts the
\* 300 ms timer for that text.  The expiry of a timer comes 300 ms or more
\* after the last change of the text; it issues the request for the current
\* text when the text is non-empty after trimming, and no request when the
\* text is of white space only.
C19_TranscriptDebouncedAfterRecording ==
  [][/\ \A k \in 1..Len(voiceCalls) : \A text \in DictatedTexts :
          (onmessage(k, text) /\ activeTab = "text")
            => /\ sourceText' = (IF sourceText = << >> THEN text
                                 ELSE sourceText \o <<" ">> \o text)
               /\ IF isRecording
                  THEN /\ debounceTimers' = {}
                       /\ activeStreamRef' = activeStreamRef /\ requests' = requests
                  ELSE debounceTimers' = {FreshTimer(sourceText')}
     /\ (isRecording /\ ~isRecording' /\ activeTab' = "text" /\ sourceText' # << >>)
          => debounceTimers' = {FreshTimer(sourceText')}
     /\ \A t \in debounceTimers :
          DebounceFire(t)
            => /\ quietMs >= DEBOUNCE_MS
               /\ t.text = sourceText
               /\ IF Trim(t.text) # << >>
                  THEN \E r \in requests' \ requests :
                         r.text = sourceText /\ r.streamId = activeStreamRef'
                  ELSE /\ requests' = requests
                       /\ activeStreamRef' = activeStreamRef]_vars

\* Two fragments were dictated, recording has stopped, and the request for
\* the dictated text is in flight.
C19_Witness ==
  /\ ~isRecording /\ sourceText = <<"a", " ", "a">>
  /\ \E r \in requests : r.text = sourceText /\ r.streamId = activeStreamRef
  /\ \A k \in 1..Len(voiceCalls) : voiceCalls[k].pc # "open"

\* C20: for a frame of samples in [-1, 1], each value decoded from the 16-bit
\* PCM encoding of the frame is within one quantization step, 1/32768, of
\* the sample; in sample units the step is SampleUnit / PCM_SCALE.
C20_PcmRoundTrip ==
  LET decoded == decodeGeminiPCM(Atob(lastFrame.data))
      step == SampleUnit \div PCM_SCALE
  IN /\ Len(decoded) = Len(lastFrame.samples)
     /\ \A i \in 1..Len(decoded) :
          /\ decoded[i] * step - lastFrame.samples[i] <= step
          /\ lastFrame.samples[i] - decoded[i] * step <= step

\* C21: the base64 decoder, atob and the copy loop, accepts the encoding of
\* every byte sequence, the empty one included, and returns the sequence;
\* a run of generateSpeech that decodes the text returns the sequence.
C21_Base64RoundTrip ==
  /\ codec.pc # "input" =>
       AtobAccepts(codec.text) /\ Atob(codec.text) = codec.bytes
  /\ codec.pc = "decoded" => codec.out = codec.bytes

\* Bytes 0 and 255 and a third byte have been encoded and decoded.
C21_Witness ==
  /\ codec.pc = "decoded"
  /\ codec.bytes = <<0, 255, 128>> /\ codec.text = <<"A", "P", "+", "A">>

\* C22: every request in flight was made for a text that holds a character
\* other than white space; the expiry of the debounce timer over a text of
\* white space only issues no call and leaves the generation as it is.
C22_RequestsNeverBlank ==
  /\ [](\A r \in requests : \E i \in 1..Len(r.text) : ~IsWhiteSpace(r.text[i]))
  /\ [][\A t \in debounceTimers :
          (DebounceFire(t) /\ \A i \in 1..Len(t.text) : IsWhiteSpace(t.text[i]))
            => /\ activeStreamRef' = activeStreamRef
               /\ requests' = requests]_vars

\* A request for "a" is in flight; afterwards the text became a single
\* space and its debounce timer has expired without a call.
C22_Witness ==
  /\ activeStreamRef = 1
  /\ \E r \in requests : r.streamId = 1 /\ r.text = <<"a">>
  /\ sourceText = <<" ">> /\ quietMs >= DEBOUNCE_MS /\ debounceTimers = {}
  /\ activeTab = "text"

\* C23: a commit of a text that differs from the current entry, made with
\* the cursor before the last entry, keeps the entries up to the cursor and
\* appends the text: it is then the last entry, the cursor is on it and redo
\* changes nothing.
C23_CommitCutsRedoTail ==
  [][\A t \in histTimers :
       (/\ HistoryTimerFire(t)
        /\ historyIndex < Len(history) - 1
        /\ sourceText # history[historyIndex + 1])
         => /\ history' = Append(SubSeq(history, 1, historyIndex + 1), sourceText)
            /\ historyIndex' = Len(history') - 1
            /\ history'[historyIndex' + 1] = sourceText'
            /\ RedoUpdate([history |-> history', historyIndex |-> historyIndex',
                           sourceText |-> sourceText'])
                 = [history |-> history', historyIndex |-> historyIndex',
                    sourceText |-> sourceText']]_vars

\* The last commit has cut a redo tail: the cursor is on the new last entry.
C23_Witness ==
  /\ lastCommit = "truncate"
  /\ historyIndex = Len(history) - 1 /\ Len(history) >= 3
  /\ history[Len(history)] = sourceText

\* C24: a commit made with 50 entries and the cursor on the last one drops
\* the oldest entry only: 50 entries remain, the older ones in their order,
\* and the cursor addresses the committed text.
C24_CommitAtBoundDropsOldest ==
  [][\A t \in histTimers :
       (/\ HistoryTimerFire(t)
        /\ Len(history) = HISTORY_MAX
        /\ historyIndex = HISTORY_MAX - 1
        /\ sourceText # history[historyIndex + 1])
         => /\ Len(history') = HISTORY_MAX
            /\ \A i \in 1..(HISTORY_MAX - 1) : history'[i] = history[i + 1]
            /\ history'[HISTORY_MAX] = sourceText
            /\ history'[historyIndex' + 1] = sourceText]_vars

\* The last commit has dropped the oldest entry of a full history.
C24_Witness ==
  /\ lastCommit = "shift"
  /\ Len(history) = HISTORY_MAX /\ historyIndex = HISTORY_MAX - 1
  /\ history[HISTORY_MAX] = sourceText

\* C25: undo and redo leave the entries as they are and, when they move the
\* cursor, leave no history timer pending, so nothing is recorded for the
\* text they apply; the re-entrancy flag is clear after every step, and a
\* typed change arms the history timer for the typed text.
C25_UndoRedoRecordNothing ==
  /\ [](~isInternalChange)
  /\ [][/\ (handleUndo \/ handleRedo)
            => /\ history' = history
               /\ historyIndex' # historyIndex
                    => /\ histTimers' = {}
                       /\ sourceText' = history[historyIndex' + 1]
        /\ \A text \in HistTexts :
             TypeText(text)
               => histTimers' = {[text |-> text, history |-> history,
                                  historyIndex |-> historyIndex,
                                  remaining |-> HISTORY_MS]}]_vars

\* Undo has moved the cursor back over a recorded entry, and the text typed
\* after it is waiting to be recorded.
C25_Witness ==
  /\ historyIndex < Len(history) - 1
  /\ sourceText # history[historyIndex + 1]
  /\ \E t \in histTimers : t.text = sourceText /\ t.historyIndex = historyIndex
  /\ ~isInternalChange

\* C26: each non-empty fragment the current generation receives is appended
\* to what that generation has accumulated, and the accumulated text is
\* published as the target text: each published value extends the one
\* before by the fragment.  Empty fragments publish nothing.
C26_FragmentsInReceiptOrder ==
  [][\A r \in requests : \A raw \in StreamChunks :
       (StreamChunk(r, raw) /\ r.streamId = activeStreamRef)
         => IF raw = << >>
            THEN targetText' = targetText /\ requests' = requests
            ELSE /\ targetText' = r.fullText \o raw
                 /\ requests' = (requests \ {r})
                                   \cup {[r EXCEPT !.fullText = r.fullText \o raw]}]_vars

\* The current generation has received "x" and then "y" and shows "xy".
C26_Witness ==
  \E r \in requests :
    /\ r.streamId = activeStreamRef /\ r.pc = "stream"
    /\ r.fullText = <<"x", "y">> /\ targetText = <<"x", "y">>

\* C27: a stale request leaves detected language and confidence as they are
\* when its structured call returns, and leaves the error message and the
\* status as they are when its stream or its structured call fails.
C27_StaleExitsSilently ==
  [][\A r \in requests :
       r.streamId # activeStreamRef
         => /\ \A res \in DetectResults :
                 DetectReturn(r, res) => UNCHANGED display
            /\ \A m \in ErrorMessages :
                 (StreamFail(r, m) \/ DetectFail(r, m)) => UNCHANGED display]_vars

\* A stale request is waiting for its structured call while the current
\* request streams; nothing was detected and no error is shown.
C27_Witness ==
  /\ \E r, q \in requests :
       /\ r.pc = "detect" /\ r.streamId < activeStreamRef
       /\ q.pc = "stream" /\ q.streamId = activeStreamRef /\ q.fullText # << >>
  /\ detectedLang = "" /\ error = Null /\ status = LOADING

\* C28: when the stream of the current generation completes and has
\* delivered no fragment, the request ends with status Error and an error
\* message: no structured call follows and the status is not Success.
C28_EmptyResponseIsFailure ==
  [][\A r \in requests :
       (StreamEnd(r) /\ r.streamId = activeStreamRef /\ r.fullText = << >>)
         => /\ status' = ERROR
            /\ error' # Null
            /\ r.streamId \notin {q.streamId : q \in requests'}]_vars

\* C29: when a session reports an error, an error message is recorded and
\* the teardown of stop() is done: the session, the capture tracks and the
\* context of every started session are released, no graph is left
\* attached, the refs are null and the recording flag is off.
C29_SessionErrorTearsDown ==
  [][\A k \in 1..Len(voiceCalls) : \A closeThrows \in BOOLEAN :
       onerror(k, closeThrows)
         => /\ error' # Null
            /\ ~isRecording'
            /\ liveSessionPromiseRef' = 0 /\ mediaStreamRef' = 0
            /\ inputAudioContextRef' = 0 /\ voiceNodes' = 0
            /\ \A j \in 1..Len(voiceCalls) :
                 Acquired(j)
                   => /\ voiceCalls'[j].sessionCloses > 0
                      /\ voiceCalls'[j].trackStops > 0
                      /\ voiceCalls'[j].ctxCloses > 0
                      /\ voiceCalls'[j].graph # "attached"]_vars

\* A session is live: connecting or open.
SessionLive == \E k \in 1..Len(voiceCalls) : voiceCalls[k].pc \in {"connecting", "open"}

\* C30: with recording off and no session live, no capture track is running
\* and no processing graph is attached.
C30_DeviceAndGraphReleased ==
  (~isRecording /\ ~SessionLive)
    => \A k \in 1..Len(voiceCalls) :
         DeviceAcquired(k)
           => voiceCalls[k].trackStops > 0 /\ voiceCalls[k].graph # "attached"

\* Math.round of n / d for d > 0: the nearest integer, a tie going up.
RoundDiv(n, d) == (2 * n + d) \div (2 * d)

\* C31: the blob of a captured frame holds, for each sample s, the 16-bit
\* value of round(s * 32768), rounded to the nearest integer and wrapped
\* modulo 2^16 without clamping.
C31_EncoderRoundsAndWraps ==
  LET step == SampleUnit \div PCM_SCALE IN
  lastFrame.data =
    encode(Int16Bytes([i \in 1..Len(lastFrame.samples) |->
                         ToInt16(RoundDiv(lastFrame.samples[i], step))]))

\* C32: in text mode, while the source text is empty the target text is
\* empty and the status is Idle: no request issued before the text became
\* empty writes to the display afterwards.
C32_EmptySourceStaysIdle ==
  (activeTab = "text" /\ sourceText = << >>)
    => (targetText = << >> /\ status = IDLE)

\* C33: after a swap that exchanged the texts, no fragment and no completion
\* of a streaming request issued before it changes the target text or the
\* status.
C33_SwapDiscardsInFlight ==
  [][\A r \in requests :
       r.streamId \in preSwap
         => /\ \A raw \in RawChunks :
                 StreamChunk(r, raw) => UNCHANGED <<targetText, status>>
            /\ StreamEnd(r) => UNCHANGED <<targetText, status>>]_vars

\* C34: whenever the status is Loading it later becomes Success, Error or
\* Idle, provided every service call returns or fails and the user stops
\* producing input events.
C34_LoadingEnds == (status = LOADING) ~> (status \in {SUCCESS, ERROR, IDLE})

\* A second request was issued while the first was in flight, both have
\* returned and the status has left Loading for Success.
C34_Witness ==
  /\ activeStreamRef = 2 /\ requests = {} /\ status = SUCCESS
  /\ targetText # << >>

\* C35: the target language is never "auto", in the state, in a pending
\* debounce timer or in an issued request.
C35_TargetNeverAuto ==
  /\ targetLang # "auto"
  /\ \A t \in debounceTimers : t.targetLang # "auto"
  /\ \A r \in requests : r.targetLang # "auto"

\* A request from "en" to "es" was in flight when swap exchanged the
\* languages, and the source language has since been set back to "auto".
C35_Witness ==
  /\ sourceLang = "auto" /\ targetLang = "en"
  /\ \E r \in requests :
       r.streamId \in preSwap /\ r.sourceLang = "en" /\ r.targetLang = "es"

====
